---- MODULE Spec2Model ----
(***************************************************************************)
(* nifty-bot-v3 (src/main.py): the SQLite-backed SessionManager, the       *)
(* context built for the Ollama call and the /chat request handler.        *)
(*                                                                         *)
(* The sessions table lives in a file (DB_PATH) that every worker of the   *)
(* service opens; each `with self._get_conn()` block is one transaction.   *)
(* A caller is therefore modelled as a process whose steps are the         *)
(* transactions it runs and the Ollama call, and steps of different        *)
(* callers interleave.  SeqSpec is the same program with one caller at a   *)
(* time (a single event loop: the handler never yields between its store   *)
(* accesses).                                                              *)
(*                                                                         *)
(* A text is a sequence of tokens; the token " " is whitespace.            *)
(***************************************************************************)
EXTENDS Integers, Sequences, FiniteSets, TLC

VARIABLES
    store,      \* the sessions table: session_id -> row
    issued,     \* the tokens secrets.token_urlsafe has produced so far
    proc,       \* each caller's position and locals
    appended,   \* history: per session, the turns of the completed save_message calls
    nops        \* number of operations started (bounded by MaxOps)

vars == <<store, issued, proc, appended, nops>>

----------------------------------------------------------------------------
(* Bounds of the model *)

NumProcs == 2
MaxOps == 2
MaxIssued == 1
SmallLen == 2

----------------------------------------------------------------------------
(* Program constants *)

\* get_messages(self, session_id, limit: int = 20)
DefaultLimit == 20

Procs == 1..NumProcs
ClientIds == {"s1", "s2"}
Tokens == {"g1", "g2"}
Ids == ClientIds \cup Tokens

\* Python's None, as data.get("session_id") returns it for an absent key
None == "None"
EmptyStr == ""

WS == " "
EmptyText == <<>>

SYSTEM_PROMPT == <<"You are nifty-bot">>
FALLBACK_REPLY == <<"Sorry, I encountered an error. Please try again!">>
MESSAGE_REQUIRED == <<"message required">>

----------------------------------------------------------------------------
(* Inputs *)

\* request bodies: session_id absent (None), empty, or a string; message
\* absent, or a text that may be empty, whitespace, or padded
RawMessages == {EmptyText, <<WS>>, <<"hi">>, <<WS, "yo">>}
Replies == {<<"ok">>}
LLMErrors == {"timeout", "KeyError"}
Roles == {"user", "assistant"}
Texts == {<<"yo">>}
Limits == {0, 2, DefaultLimit + 2}

----------------------------------------------------------------------------
(* Pure functions *)

Min(a, b) == IF a <= b THEN a ELSE b
Max(a, b) == IF a >= b THEN a ELSE b

\* str.strip(): drop leading and trailing whitespace
RECURSIVE LStrip(_)
LStrip(t) == IF t # <<>> /\ Head(t) = WS THEN LStrip(Tail(t)) ELSE t

RECURSIVE RStrip(_)
RStrip(t) ==
    IF t # <<>> /\ t[Len(t)] = WS THEN RStrip(SubSeq(t, 1, Len(t) - 1)) ELSE t

\* mutant: the message is used as sent, .strip() forgotten
strip_omitted(t) == t

strip(t) == RStrip(LStrip(t))

\* mutant: the slice stops one short of the end (seq[start:-1])
PySliceFrom_excludes_last(seq, start) ==
    LET L == Len(seq)
        lo == IF start < 0 THEN Max(L + start, 0) ELSE Min(start, L)
    IN  SubSeq(seq, lo + 1, L - 1)

\* Python's seq[start:] for any integer start
PySliceFrom(seq, start) ==
    LET L == Len(seq)
        lo == IF start < 0 THEN Max(L + start, 0) ELSE Min(start, L)
    IN  SubSeq(seq, lo + 1, L)

\* json.dumps / json.loads of a list of {"role": .., "text": ..}: the stored
\* form is a list of (role, text) pairs
json_dumps(messages) ==
    [i \in 1..Len(messages) |-> <<messages[i].role, messages[i].text>>]

json_loads(items) ==
    [i \in 1..Len(items) |-> [role |-> items[i][1], text |-> items[i][2]]]

\* a row of the sessions table
NoRow == [exists |-> FALSE, wellformed |-> TRUE, items |-> <<>>]
Malformed == [exists |-> TRUE, wellformed |-> FALSE, items |-> <<>>]
Row(messages) == [exists |-> TRUE, wellformed |-> TRUE, items |-> json_dumps(messages)]

Ok(v) == [ok |-> TRUE, value |-> v, exc |-> ""]
Raise(e) == [ok |-> FALSE, value |-> <<>>, exc |-> e]

\* mutant: the window is taken from the front of the log (messages[:limit])
get_messages_head(st, io, session_id, limit) ==
    LET row == st[session_id] IN
    IF io # "ok" THEN Raise(io)
    ELSE IF row.exists
         THEN IF row.wellformed
              THEN Ok(SubSeq(json_loads(row.items), 1,
                             Min(limit, Len(json_loads(row.items)))))
              ELSE Raise("JSONDecodeError")
         ELSE Ok(<<>>)

\* SessionManager.get_messages on the table st; io is the outcome of the
\* connection ("ok", or the sqlite3 error raised)
get_messages(st, io, session_id, limit) ==
    LET row == st[session_id] IN
    IF io # "ok" THEN Raise(io)
    ELSE IF row.exists
         THEN IF row.wellformed
              THEN Ok(PySliceFrom(json_loads(row.items), -limit))
              ELSE Raise("JSONDecodeError")
         ELSE Ok(<<>>)

\* mutant: the UPDATE has no key, every existing row gets the new value
upsert_every_row(st, session_id, messages) ==
    [x \in DOMAIN st |->
        IF x = session_id \/ st[x].exists THEN Row(messages) ELSE st[x]]

\* INSERT ... ON CONFLICT(session_id) DO UPDATE SET messages=?
upsert(st, session_id, messages) ==
    [st EXCEPT ![session_id] = Row(messages)]

\* mutant: the new user message is put before the history instead of after it
build_context_history_last(memory, user_message) ==
    <<[role |-> "system", content |-> SYSTEM_PROMPT],
      [role |-> "user", content |-> user_message]>>
    \o [i \in 1..Len(memory) |-> [role |-> memory[i].role, content |-> memory[i].text]]

\* the messages array chat_with_ollama sends
build_context(memory, user_message) ==
    <<[role |-> "system", content |-> SYSTEM_PROMPT]>>
    \o [i \in 1..Len(memory) |-> [role |-> memory[i].role, content |-> memory[i].text]]
    \o <<[role |-> "user", content |-> user_message]>>

----------------------------------------------------------------------------
(* Callers *)

NoData == [session_id |-> None, has_message |-> FALSE, message |-> EmptyText]
NoResp == [status |-> 0, response |-> EmptyText, session_id |-> None]
NoRet == Ok(<<>>)

Idle ==
    [pc |-> "idle", op |-> "none", data |-> NoData, session_id |-> None,
     message |-> EmptyText, role |-> "", text |-> EmptyText, limit |-> 0,
     context |-> <<>>, reply |-> EmptyText, messages |-> <<>>,
     exc |-> "", resp |-> NoResp, ret |-> NoRet]

\* the log written by n earlier save_message calls of an alternating conversation
PriorLog(n) ==
    [i \in 1..n |-> [role |-> IF i % 2 = 1 THEN "user" ELSE "assistant",
                     text |-> <<ToString(i)>>]]

InitLens == (0..SmallLen) \cup ((DefaultLimit - 1)..(DefaultLimit + 1))

----------------------------------------------------------------------------
(* Initial state: SessionManager() on DB_PATH.  CREATE TABLE IF NOT EXISTS  *)
(* keeps what an earlier run left in the file: here at most one earlier     *)
(* session, holding the log of an earlier conversation or a damaged value.  *)

EarlierId == "s1"

InitRows == {Malformed} \cup {IF n = 0 THEN NoRow ELSE Row(PriorLog(n)) : n \in InitLens}

Init ==
    /\ \E r \in InitRows :
           store = [x \in Ids |-> IF x = EarlierId THEN r ELSE NoRow]
    /\ appended = [x \in Ids |-> json_loads(store[x].items)]
    /\ issued = {}
    /\ proc = [p \in Procs |-> Idle]
    /\ nops = 0

----------------------------------------------------------------------------
(* POST /chat *)

StoreOutcomes == {"ok", "OperationalError"}

\* the session ids a caller can name: its own, and the tokens that a response
\* has carried back
KnownIds ==
    ClientIds \cup
    {t \in issued : \A q \in Procs :
        proc[q].session_id = t => proc[q].pc \in {"idle", "done"}}

Bodies ==
    {[session_id |-> s, has_message |-> h, message |-> m] :
        s \in {None, EmptyStr} \cup KnownIds,
        h \in BOOLEAN, m \in RawMessages} \ 
    {[session_id |-> s, has_message |-> FALSE, message |-> m] :
        s \in {None, EmptyStr} \cup KnownIds,
        m \in RawMessages \ {EmptyText}}

\* a caller takes the first free slot; MaxOps operations are started in all
Free(p) ==
    /\ proc[p].pc = "idle"
    /\ \A q \in Procs : q < p => proc[q].pc # "idle"
    /\ nops < MaxOps

Response(status, response, session_id) ==
    [status |-> status, response |-> response, session_id |-> session_id]

\* the operation returns or raises: the request, the exception caught and the
\* response (or the value returned to a direct caller) are what is left
Finished(op, data, exc, resp, ret) ==
    [Idle EXCEPT !.pc = "done", !.op = op, !.data = data, !.exc = exc,
                 !.resp = resp, !.ret = ret]

\* lines 170-184: parse, validate the message, allocate a session id
ChatReceive(p, data) ==
    /\ Free(p)
    /\ nops' = nops + 1
    /\ LET message == strip(IF data.has_message THEN data.message ELSE EmptyText)
           accepted(sid) ==
               [Idle EXCEPT !.pc = "chat_load", !.op = "chat", !.data = data,
                            !.session_id = sid, !.message = message]
       IN  IF message = EmptyText
           THEN /\ proc' = [proc EXCEPT ![p] =
                       Finished("chat", data, "HTTPException",
                                Response(400, MESSAGE_REQUIRED, None), NoRet)]
                /\ issued' = issued
           ELSE IF data.session_id \in {None, EmptyStr}
                THEN /\ Cardinality(issued) < MaxIssued
                     /\ \E t \in Tokens \ issued :
                            /\ issued' = issued \cup {t}
                            /\ proc' = [proc EXCEPT ![p] = accepted(t)]
                ELSE /\ issued' = issued
                     /\ proc' = [proc EXCEPT ![p] = accepted(data.session_id)]
    /\ UNCHANGED <<store, appended>>

\* mutant: the fallback answer leaves the session id out
Fallback_without_session_id(session_id) == Response(200, FALLBACK_REPLY, None)

\* the response of line 192: the except clause around chat_with_ollama
Fallback(session_id) == Response(200, FALLBACK_REPLY, session_id)

\* the response of line 208: HTTPException(500, detail=str(e))
ServerError(exc) == Response(500, <<exc>>, None)

\* mutant: loading the history of an unknown session creates its (empty) record
ChatLoad_creates_session(p, io) ==
    /\ proc[p].pc = "chat_load"
    /\ LET r == get_messages(store, io, proc[p].session_id, DefaultLimit)
       IN  /\ proc' = [proc EXCEPT ![p] =
                  IF r.ok
                  THEN [@ EXCEPT !.pc = "chat_llm",
                                 !.context = build_context(r.value, proc[p].message)]
                  ELSE Finished("chat", proc[p].data, r.exc,
                                Fallback(proc[p].session_id), NoRet)]
           /\ store' = IF r.ok /\ ~store[proc[p].session_id].exists
                       THEN upsert(store, proc[p].session_id, <<>>)
                       ELSE store
    /\ UNCHANGED <<issued, appended, nops>>

\* lines 99-128, inside the try of line 187: load the history, build the context
ChatLoad(p, io) ==
    /\ proc[p].pc = "chat_load"
    /\ LET r == get_messages(store, io, proc[p].session_id, DefaultLimit)
       IN  proc' = [proc EXCEPT ![p] =
               IF r.ok
               THEN [@ EXCEPT !.pc = "chat_llm",
                              !.context = build_context(r.value, proc[p].message)]
               ELSE Finished("chat", proc[p].data, r.exc,
                             Fallback(proc[p].session_id), NoRet)]
    /\ UNCHANGED <<store, issued, appended, nops>>

\* lines 132-141: ollama_client.chat answers, the reply is extracted
ChatLLMReply(p, reply) ==
    /\ proc[p].pc = "chat_llm"
    /\ proc' = [proc EXCEPT ![p] =
           [@ EXCEPT !.pc = "save_user_read", !.context = <<>>, !.reply = reply,
                     !.role = "user", !.text = proc[p].message]]
    /\ UNCHANGED <<store, issued, appended, nops>>

\* mutant: the except clause answers with the text of the exception
ChatLLMFail_leaks_exception(p, exc) ==
    /\ proc[p].pc = "chat_llm"
    /\ proc' = [proc EXCEPT ![p] =
           Finished("chat", proc[p].data, exc,
                    Response(200, <<exc>>, proc[p].session_id), NoRet)]
    /\ UNCHANGED <<store, issued, appended, nops>>

\* lines 143-145 and 190-195: the call or the extraction raises
ChatLLMFail(p, exc) ==
    /\ proc[p].pc = "chat_llm"
    /\ proc' = [proc EXCEPT ![p] =
           Finished("chat", proc[p].data, exc, Fallback(proc[p].session_id), NoRet)]
    /\ UNCHANGED <<store, issued, appended, nops>>

\* lines 26-29 and 132-135: the collaborator accepts the call and never
\* answers; the Client is built without a timeout, so ollama_client.chat blocks
\* and no later step of the request is enabled
ChatLLMSilent(p) ==
    /\ proc[p].pc = "chat_llm"
    /\ proc' = [proc EXCEPT ![p] = [@ EXCEPT !.pc = "chat_llm_wait"]]
    /\ UNCHANGED <<store, issued, appended, nops>>

\* what a raise out of save_message becomes: a 500 in the handler, the
\* exception itself for a direct caller
Failed(p, exc) ==
    IF proc[p].op = "chat"
    THEN Finished("chat", proc[p].data, exc, ServerError(exc), NoRet)
    ELSE [Finished(proc[p].op, NoData, exc, NoResp, Raise(exc))
             EXCEPT !.session_id = proc[p].session_id]

\* mutant: save_message reads the whole log, not the default window
save_read_whole_log(p, io, from, to) ==
    /\ proc[p].pc = from
    /\ LET r == get_messages(store, io, proc[p].session_id, 0)
       IN  proc' = [proc EXCEPT ![p] =
               IF r.ok
               THEN [@ EXCEPT !.pc = to,
                              !.messages = Append(r.value,
                                  [role |-> proc[p].role, text |-> proc[p].text])]
               ELSE Failed(p, r.exc)]
    /\ UNCHANGED <<store, issued, appended, nops>>

\* lines 76-77: messages = self.get_messages(session_id); messages.append(..)
save_read(p, io, from, to) ==
    /\ proc[p].pc = from
    /\ LET r == get_messages(store, io, proc[p].session_id, DefaultLimit)
       IN  proc' = [proc EXCEPT ![p] =
               IF r.ok
               THEN [@ EXCEPT !.pc = to,
                              !.messages = Append(r.value,
                                  [role |-> proc[p].role, text |-> proc[p].text])]
               ELSE Failed(p, r.exc)]
    /\ UNCHANGED <<store, issued, appended, nops>>

\* lines 78-84: the upsert; after is the caller's state once save_message returned
save_write(p, io, from, after) ==
    /\ proc[p].pc = from
    /\ IF io = "ok"
       THEN /\ store' = upsert(store, proc[p].session_id, proc[p].messages)
            /\ appended' = [appended EXCEPT ![proc[p].session_id] =
                                Append(@, [role |-> proc[p].role, text |-> proc[p].text])]
            /\ proc' = [proc EXCEPT ![p] = after]
       ELSE /\ proc' = [proc EXCEPT ![p] = Failed(p, io)]
            /\ UNCHANGED <<store, appended>>
    /\ UNCHANGED <<issued, nops>>

\* line 198: save_message(session_id, "user", message)
ChatSaveUserRead(p, io) == save_read(p, io, "save_user_read", "save_user_write")

ChatSaveUserWrite(p, io) ==
    save_write(p, io, "save_user_write",
        [proc[p] EXCEPT !.pc = "save_asst_read", !.messages = <<>>,
                        !.role = "assistant", !.text = proc[p].reply])

\* line 199: save_message(session_id, "assistant", reply)
ChatSaveAssistantRead(p, io) == save_read(p, io, "save_asst_read", "save_asst_write")

\* lines 199-202: the second upsert, then the reply is returned
ChatSaveAssistantWrite(p, io) ==
    save_write(p, io, "save_asst_write",
        Finished("chat", proc[p].data, "",
                 Response(200, proc[p].reply, proc[p].session_id), NoRet))

----------------------------------------------------------------------------
(* SessionManager called directly *)

\* get_messages(session_id, limit)
CallGetMessages(p, s, limit, io) ==
    /\ Free(p)
    /\ nops' = nops + 1
    /\ proc' = [proc EXCEPT ![p] =
           LET r == get_messages(store, io, s, limit)
           IN  [Finished("get", NoData, r.exc, NoResp, r)
                   EXCEPT !.session_id = s, !.limit = limit]]
    /\ UNCHANGED <<store, issued, appended>>

\* save_message(session_id, role, text)
CallSaveMessage(p, s, role, text) ==
    /\ Free(p)
    /\ nops' = nops + 1
    /\ proc' = [proc EXCEPT ![p] =
           [Idle EXCEPT !.pc = "sm_read", !.op = "save", !.session_id = s,
                        !.role = role, !.text = text]]
    /\ UNCHANGED <<store, issued, appended>>

SaveMessageRead(p, io) == save_read(p, io, "sm_read", "sm_write")

SaveMessageWrite(p, io) ==
    save_write(p, io, "sm_write",
        [Finished("save", NoData, "", NoResp, NoRet)
            EXCEPT !.session_id = proc[p].session_id])

\* the caller has consumed the response
Return(p) ==
    /\ proc[p].pc = "done"
    /\ proc' = [proc EXCEPT ![p] = Idle]
    /\ UNCHANGED <<store, issued, appended, nops>>

----------------------------------------------------------------------------
(* Specifications *)

Start(p) ==
    \/ \E data \in Bodies : ChatReceive(p, data)
    \/ \E s \in KnownIds, limit \in Limits, io \in StoreOutcomes :
           CallGetMessages(p, s, limit, io)
    \/ \E s \in KnownIds, role \in Roles, text \in Texts : CallSaveMessage(p, s, role, text)

Step(p) ==
    \/ \E io \in StoreOutcomes : ChatLoad(p, io)
    \/ \E reply \in Replies : ChatLLMReply(p, reply)
    \/ \E exc \in LLMErrors : ChatLLMFail(p, exc)
    \/ ChatLLMSilent(p)
    \/ \E io \in StoreOutcomes : ChatSaveUserRead(p, io)
    \/ \E io \in StoreOutcomes : ChatSaveUserWrite(p, io)
    \/ \E io \in StoreOutcomes : ChatSaveAssistantRead(p, io)
    \/ \E io \in StoreOutcomes : ChatSaveAssistantWrite(p, io)
    \/ \E io \in StoreOutcomes : SaveMessageRead(p, io)
    \/ \E io \in StoreOutcomes : SaveMessageWrite(p, io)
    \/ Return(p)

Next == \E p \in Procs : Start(p) \/ Step(p)

Spec == Init /\ [][Next]_vars

\* one caller at a time
Quiet == \A q \in Procs : proc[q].pc = "idle"

SeqNext == \E p \in Procs : (Quiet /\ Start(p)) \/ Step(p)

SeqSpec == Init /\ [][SeqNext]_vars

\* a caller that can take a step takes one: the handler runs to its next await
\* or return, sqlite answers or raises
LiveSpec == SeqSpec /\ \A p \in Procs : WF_vars(Step(p))

\* a log made of complete exchanges: user, assistant, user, assistant, ...
Complete(log) ==
    /\ Len(log) % 2 = 0
    /\ \A i \in 1..Len(log) :
           log[i].role = IF i % 2 = 1 THEN "user" ELSE "assistant"

\* the service as deployed: POST /chat is the only caller of the
\* SessionManager, one request at a time, and the table holds what earlier
\* requests that ran to their end have written
ChatInit ==
    /\ Init
    /\ store[EarlierId].wellformed
    /\ Complete(json_loads(store[EarlierId].items))

ChatStep(p) ==
    \/ \E io \in StoreOutcomes : ChatLoad(p, io)
    \/ \E reply \in Replies : ChatLLMReply(p, reply)
    \/ \E exc \in LLMErrors : ChatLLMFail(p, exc)
    \/ ChatLLMSilent(p)
    \/ \E io \in StoreOutcomes : ChatSaveUserRead(p, io)
    \/ \E io \in StoreOutcomes : ChatSaveUserWrite(p, io)
    \/ \E io \in StoreOutcomes : ChatSaveAssistantRead(p, io)
    \/ \E io \in StoreOutcomes : ChatSaveAssistantWrite(p, io)
    \/ Return(p)

ChatNext ==
    \E p \in Procs : (Quiet /\ \E data \in Bodies : ChatReceive(p, data)) \/ ChatStep(p)

ChatSpec == ChatInit /\ [][ChatNext]_vars

----------------------------------------------------------------------------
(* Vocabulary of the properties *)

Turn(role, text) == [role |-> role, text |-> text]

\* the log a well-formed row holds
StoredLog(st, s) == json_loads(st[s].items)

\* the step is caller p's
Acts(p) == proc'[p] # proc[p]

ReadPcs == {"save_user_read", "save_asst_read", "sm_read"}
WritePcs == {"save_user_write", "save_asst_write", "sm_write"}

\* the message of a request body as sent (absent: the empty text)
Sent(data) == IF data.has_message THEN data.message ELSE EmptyText

Blank(text) == \A i \in 1..Len(text) : text[i] = WS

Count(seq, x) == Cardinality({i \in 1..Len(seq) : seq[i] = x})

\* the last n elements of seq, oldest first
Trailing(seq, n) == [i \in 1..n |-> seq[Len(seq) - n + i]]

\* x occurs in seq, and y after it
InOrder(seq, x, y) == \E i, j \in 1..Len(seq) : i < j /\ seq[i] = x /\ seq[j] = y

----------------------------------------------------------------------------
(* C1 .. C10 *)

\* C1: a save_message call that returns leaves the stored log of its session
\* equal to the stored log before the call with the new turn added at the end,
\* whatever the length of the log (one caller at a time).
C1_SaveMessageOnlyAppends ==
    [][\A p \in Procs :
          (proc[p].pc \in WritePcs /\ Acts(p) /\ proc'[p].exc = "") =>
              StoredLog(store', proc[p].session_id) =
                  Append(StoredLog(store, proc[p].session_id),
                         Turn(proc[p].role, proc[p].text))]_vars

\* C2: after N sequential save_message calls on a session that started
\* unknown, get_messages with a limit >= N returns exactly the N turns, in the
\* order they were appended.
C2_RoundTrip ==
    \A p \in Procs :
        (/\ proc[p].pc = "done"
         /\ proc[p].op = "get"
         /\ proc[p].ret.ok
         /\ proc[p].limit >= Len(appended[proc[p].session_id]))
        => proc[p].ret.value = appended[proc[p].session_id]

\* C3: once the concurrent save_message calls on a session, each appending a
\* distinct turn, have all returned, the stored log holds the turn of every one
\* of them exactly once (logs within the read window, so that nothing but a
\* lost update can drop a turn).
C3_NoLostUpdate ==
    \A s \in Ids :
        (/\ \A p \in Procs :
               proc[p].session_id = s => proc[p].pc \notin ReadPcs \cup WritePcs
         /\ store[s].wellformed
         /\ Len(appended[s]) <= DefaultLimit
         /\ \A i, j \in 1..Len(appended[s]) :
                i # j => appended[s][i] # appended[s][j])
        => /\ Len(StoredLog(store, s)) = Len(appended[s])
           /\ \A i \in 1..Len(appended[s]) :
                  Count(StoredLog(store, s), appended[s][i]) =
                  Count(appended[s], appended[s][i])

\* C4: no step of a /chat request up to and including a failing LLM call
\* changes the store, and the failing call ends the request with status 200
\* and the fixed fallback text, which is not the exception's text.
C4_LLMFailureIsSoft ==
    [][\A p \in Procs :
          /\ (proc[p].pc \in {"idle", "chat_load", "chat_llm"} /\ Acts(p))
                 => store' = store
          /\ (proc[p].pc = "chat_llm" /\ proc'[p].pc = "done")
                 => /\ proc'[p].resp.status = 200
                    /\ proc'[p].resp.response = FALLBACK_REPLY
                    /\ proc'[p].resp.response # <<proc'[p].exc>>
                    /\ proc'[p].resp.response # EmptyText]_vars

C4_Witness ==
    \E p \in Procs :
        /\ proc[p].pc = "done"
        /\ proc[p].op = "chat"
        /\ proc[p].exc \in LLMErrors
        /\ proc[p].resp.status = 200
        /\ proc[p].resp.response = FALLBACK_REPLY
        /\ proc[p].resp.session_id # None

\* C5: a /chat request that ends on a Store failure (the connection fails or
\* the stored log is malformed), at whichever step, answers 500 and never 200.
C5_StoreFailureIsFatal ==
    \A p \in Procs :
        (/\ proc[p].pc = "done"
         /\ proc[p].op = "chat"
         /\ proc[p].exc \in {"OperationalError", "JSONDecodeError"})
        => proc[p].resp.status = 500

\* C6: when a /chat request returns after a successful LLM call, either it
\* answers 200 with the reply and the stored log of its session then holds its
\* user turn and, after it, its assistant turn, or it answers 500.
C6_DeliveredReplyIsRecorded ==
    [][\A p \in Procs :
          (proc[p].pc \in ReadPcs \cup WritePcs /\ proc[p].op = "chat"
              /\ proc'[p].pc = "done")
          => IF proc'[p].resp.status = 200
             THEN /\ proc'[p].resp.response = proc[p].reply
                  /\ InOrder(StoredLog(store', proc[p].session_id),
                             Turn("user", proc[p].message),
                             Turn("assistant", proc[p].reply))
             ELSE proc'[p].resp.status = 500]_vars

\* C7: get_messages(session_id, limit) with limit >= 0 returns the trailing
\* min(limit, L) turns of the stored log of length L, oldest first.
C7_GetMessagesWindow ==
    \A p \in Procs :
        (/\ proc[p].pc = "done"
         /\ proc[p].op = "get"
         /\ proc[p].ret.ok
         /\ proc[p].limit >= 0)
        => LET log == StoredLog(store, proc[p].session_id)
           IN  proc[p].ret.value = Trailing(log, Min(proc[p].limit, Len(log)))

\* C8: a /chat request whose message is missing, empty or whitespace-only ends
\* at once with status 400: no session id is allocated, the LLM is not called
\* and the store is left as it was.
C8_BlankMessageRejected ==
    [][\A p \in Procs :
          (proc[p].pc = "idle" /\ proc'[p].op = "chat" /\ Blank(Sent(proc'[p].data)))
          => /\ proc'[p].pc = "done"
             /\ proc'[p].resp.status = 400
             /\ proc'[p].session_id = None
             /\ issued' = issued
             /\ store' = store]_vars

C8_Witness ==
    \E p \in Procs :
        /\ proc[p].pc = "done"
        /\ proc[p].resp.status = 400
        /\ proc[p].data.has_message
        /\ proc[p].data.message = <<WS>>
        /\ proc[p].data.session_id = None

\* C9: a /chat request whose LLM call succeeds appends exactly two turns to
\* its session: first the user turn with the request's message, then the
\* assistant turn with the LLM reply (one caller at a time).
C9_ExchangeAppended ==
    [][\A p \in Procs :
          /\ (proc[p].pc = "save_user_write" /\ Acts(p) /\ proc'[p].exc = "")
                 => StoredLog(store', proc[p].session_id) =
                        Append(StoredLog(store, proc[p].session_id),
                               Turn("user", proc[p].message))
          /\ (proc[p].pc = "save_asst_write" /\ Acts(p) /\ proc'[p].exc = "")
                 => StoredLog(store', proc[p].session_id) =
                        Append(StoredLog(store, proc[p].session_id),
                               Turn("assistant", proc[p].reply))]_vars

\* C10: the context built for a session whose stored log has length L is the
\* system block, then the trailing min(L, 20) stored turns oldest first (role
\* kept, text as content), then the new user message: min(L, 20) + 2 blocks;
\* building it leaves the store unchanged.
C10_ContextWindow ==
    [][\A p \in Procs :
          (proc[p].pc = "chat_load" /\ proc'[p].pc = "chat_llm")
          => LET log == StoredLog(store, proc[p].session_id)
                 n == Min(Len(log), 20)
                 ctx == proc'[p].context
             IN  /\ Len(ctx) = n + 2
                 /\ ctx[1] = [role |-> "system", content |-> SYSTEM_PROMPT]
                 /\ \A i \in 1..n :
                        /\ ctx[1 + i].role = log[Len(log) - n + i].role
                        /\ ctx[1 + i].content = log[Len(log) - n + i].text
                 /\ ctx[n + 2] = [role |-> "user", content |-> proc[p].message]
                 /\ store' = store]_vars

C10_Witness ==
    \E p \in Procs :
        /\ proc[p].pc = "chat_llm"
        /\ Len(StoredLog(store, proc[p].session_id)) = DefaultLimit + 1
        /\ Len(proc[p].context) = DefaultLimit + 2

----------------------------------------------------------------------------
(* C11 .. C18 *)

\* the last element of a non-empty sequence
Last(seq) == seq[Len(seq)]

\* C11: once a save_message on a session has returned, a get_messages on that
\* session with a limit >= 1 that succeeds returns a non-empty sequence whose
\* last element is the turn of the most recent save_message that returned (no
\* write came in between).
C11_ReadAfterWrite ==
    [][\A p \in Procs :
          (/\ proc[p].pc = "idle"
           /\ proc'[p].op = "get"
           /\ proc'[p].ret.ok
           /\ proc'[p].limit >= 1
           /\ appended[proc'[p].session_id] # <<>>)
          => /\ proc'[p].ret.value # <<>>
             /\ Last(proc'[p].ret.value) = Last(appended[proc'[p].session_id])]_vars

C11_Witness ==
    \E p \in Procs :
        /\ proc[p].pc = "done"
        /\ proc[p].op = "get"
        /\ proc[p].ret.ok
        /\ proc[p].limit = 2
        /\ proc[p].ret.value # <<>>
        /\ Last(proc[p].ret.value) = Turn("assistant", <<"yo">>)
        /\ Len(appended[proc[p].session_id]) = DefaultLimit + 2

\* the session ids that have a record in the table
StoredIds(st) == {s \in Ids : st[s].exists}

\* C12: only the write of a save_message changes the set of stored session
\* ids; get_messages on an unknown session id leaves the table as it is and,
\* unless the connection itself fails, returns the empty sequence; a /chat
\* request on a newly allocated session id that ends on an LLM failure has
\* left the set of stored ids unchanged at each of its steps, and its id has
\* no record when it answers.
C12_SessionCreatedOnlyBySave ==
    [][/\ StoredIds(store') # StoredIds(store)
           => \E p \in Procs : proc[p].pc \in WritePcs /\ Acts(p)
       /\ \A p \in Procs :
          /\ (/\ proc[p].pc = "idle"
              /\ proc'[p].op = "get"
              /\ ~store[proc'[p].session_id].exists)
             => /\ store' = store
                /\ \/ proc'[p].ret = Ok(<<>>)
                   \/ proc'[p].exc = "OperationalError"
          /\ (proc[p].pc \in {"idle", "chat_load", "chat_llm"} /\ Acts(p))
             => StoredIds(store') = StoredIds(store)
          /\ (/\ proc[p].pc = "chat_llm"
              /\ proc'[p].pc = "done"
              /\ proc[p].data.session_id \in {None, EmptyStr})
             => /\ proc'[p].resp.session_id \in Tokens
                /\ ~store'[proc'[p].resp.session_id].exists]_vars

C12_Witness ==
    \E p, q \in Procs :
        /\ proc[p].pc = "done"
        /\ proc[p].op = "chat"
        /\ proc[p].exc \in LLMErrors
        /\ proc[p].data.session_id = None
        /\ proc[p].resp.session_id \in Tokens
        /\ ~store[proc[p].resp.session_id].exists
        /\ proc[q].pc = "done"
        /\ proc[q].op = "get"
        /\ proc[q].session_id = "s2"
        /\ proc[q].ret = Ok(<<>>)
        /\ StoredIds(store) \subseteq {EarlierId}

\* C13: a /chat request that answers 200 (reply or fallback) returns the
\* session id of the request body when that is a non-empty string, and
\* otherwise a token allocated for it; the request keeps one id from its first
\* step on, its writes change the row of that id and no other, and the id
\* returned with the reply is the id the turns were written under.
C13_SessionIdReturned ==
    [][\A p \in Procs :
          /\ (/\ proc[p].pc # "done"
              /\ proc'[p].pc = "done"
              /\ proc'[p].op = "chat"
              /\ proc'[p].resp.status = 200)
             => /\ proc'[p].resp.session_id = proc[p].session_id
                /\ IF proc'[p].data.session_id \in {None, EmptyStr}
                   THEN proc'[p].resp.session_id \in Tokens \cap issued
                   ELSE proc'[p].resp.session_id = proc'[p].data.session_id
          /\ (proc[p].pc = "idle" /\ proc'[p].pc = "chat_load")
             => IF proc'[p].data.session_id \in {None, EmptyStr}
                THEN proc'[p].session_id \in Tokens \ issued
                ELSE proc'[p].session_id = proc'[p].data.session_id
          /\ (proc[p].op = "chat" /\ proc[p].pc # "done" /\ proc'[p].pc # "done")
             => proc'[p].session_id = proc[p].session_id
          /\ (proc[p].pc \in {"save_user_write", "save_asst_write"} /\ Acts(p))
             => /\ \A s \in Ids \ {proc[p].session_id} : store'[s] = store[s]
                /\ proc'[p].exc = ""
                       => Last(StoredLog(store', proc[p].session_id)) =
                              Turn(proc[p].role, proc[p].text)]_vars

C13_Witness ==
    \E p \in Procs :
        /\ proc[p].pc = "done"
        /\ proc[p].op = "chat"
        /\ proc[p].exc = ""
        /\ proc[p].resp.status = 200
        /\ proc[p].data.session_id = EmptyStr
        /\ proc[p].resp.session_id \in Tokens
        /\ StoredLog(store, proc[p].resp.session_id) =
               <<Turn("user", <<"yo">>), Turn("assistant", proc[p].resp.response)>>

\* the session a step of caller p works on
SessionOf(p) == IF proc[p].pc = "idle" THEN proc'[p].session_id ELSE proc[p].session_id

\* C14: a step of a save_message or of a /chat request on session A, whatever
\* its outcome and however the steps of the callers interleave, leaves the row
\* of every other session B as it was.
C14_SessionsIsolated ==
    [][\A p \in Procs :
          Acts(p) => \A B \in Ids \ {SessionOf(p)} : store'[B] = store[B]]_vars

C14_Witness ==
    \E p, q \in Procs :
        /\ p < q
        /\ proc[p].op = "chat"
        /\ proc[p].pc = "save_asst_write"
        /\ proc[p].session_id = "s2"
        /\ proc[q].op = "save"
        /\ proc[q].pc = "done"
        /\ proc[q].session_id = "s1"
        /\ StoredLog(store, "s2") = <<Turn("user", proc[p].message)>>
        /\ StoredLog(store, "s1") = Append(PriorLog(SmallLen), Turn("user", <<"yo">>))

\* C15: a /chat request whose LLM collaborator never answers still completes,
\* with the fallback reply of the soft-failure path.
C15_LLMCallBounded ==
    \A p \in Procs :
        (proc[p].pc = "chat_llm_wait")
            ~> (/\ proc[p].pc = "done"
                /\ proc[p].resp.status = 200
                /\ proc[p].resp.response = FALLBACK_REPLY)

\* C16: when no /chat request is in flight, the stored log of every session
\* is a sequence of complete exchanges (even length, roles user, assistant,
\* user, assistant, ...), whatever the outcomes of the requests that ran.
C16_ExchangesAllOrNothing ==
    (\A p \in Procs : proc[p].pc \in {"idle", "done"})
        => \A s \in Ids : Complete(StoredLog(store, s))

\* C17: with one caller at a time, the stored log of every session is the
\* trailing min(n, 21) of the n turns appended to it so far, in append order;
\* so no stored log holds more than 21 turns.
C17_StoredLogIsTrailing21 ==
    \A s \in Ids :
        /\ StoredLog(store, s) =
               Trailing(appended[s], Min(Len(appended[s]), DefaultLimit + 1))
        /\ Len(StoredLog(store, s)) <= DefaultLimit + 1

C17_Witness ==
    \E s \in Ids :
        /\ Len(appended[s]) = DefaultLimit + 3
        /\ Len(StoredLog(store, s)) = DefaultLimit + 1
        /\ StoredLog(store, s)[1] = PriorLog(3)[3]
        /\ \A p \in Procs : proc[p].pc = "idle"

\* the reference store: the full log of a session is every turn appended to
\* it, never truncated; a read returns its trailing min(limit, n) turns
RefGetTurns(s, limit) == Trailing(appended[s], Min(limit, Len(appended[s])))

RefContext(s, user_message) ==
    LET window == RefGetTurns(s, DefaultLimit)
    IN  [i \in 1..(Len(window) + 2) |->
            IF i = 1 THEN [role |-> "system", content |-> SYSTEM_PROMPT]
            ELSE IF i = Len(window) + 2
                 THEN [role |-> "user", content |-> user_message]
                 ELSE [role |-> window[i - 1].role, content |-> window[i - 1].text]]

\* C18: with one caller at a time, a get_messages with 1 <= limit <= 20 that
\* succeeds returns what the reference store returns for the same session and
\* limit, and the context of every LLM call is the context built from the
\* reference store.
C18_MatchesReferenceStore ==
    \A p \in Procs :
        /\ (/\ proc[p].pc = "done"
            /\ proc[p].op = "get"
            /\ proc[p].ret.ok
            /\ proc[p].limit >= 1
            /\ proc[p].limit <= DefaultLimit)
           => proc[p].ret.value = RefGetTurns(proc[p].session_id, proc[p].limit)
        /\ proc[p].pc = "chat_llm"
           => proc[p].context = RefContext(proc[p].session_id, proc[p].message)

C18_Witness ==
    \E p \in Procs :
        /\ proc[p].pc = "done"
        /\ proc[p].op = "get"
        /\ proc[p].ret.ok
        /\ proc[p].limit = 2
        /\ Len(proc[p].ret.value) = 2
        /\ Len(appended[proc[p].session_id]) = DefaultLimit + 2
        /\ Len(StoredLog(store, proc[p].session_id)) = DefaultLimit + 1

====
